---- MODULE Spec2Model ----
(***************************************************************************)
(* CSS @scope polyfill: the text-transformation core of src/index.js       *)
(* (parseAndTransform, processBlock, rewriteSelector, splitByCommaBalanced,*)
(* findClosingBrace).                                                      *)
(*                                                                         *)
(* A JavaScript string is a sequence of one-character strings.  Indices    *)
(* are 0-based as in the source (CharAt, substring, indexOf), and -1 is    *)
(* "not found" as in the source.                                           *)
(***************************************************************************)
EXTENDS Integers, Sequences, FiniteSets, TLC

VARIABLES
    pc,            \* "ready" before the call under study, "done" after it
    fn,            \* which function the run calls
    cssText,       \* the text argument (stylesheet, body or selector line)
    rootSelector,  \* the root selector argument (processBlock, rewriteSelector)
    result         \* the value the call returned

\* The state of a started polyfill (CSSScopePolyfill) and of the page it runs in
VARIABLES
    events,          \* the argument of CSSScopePolyfill
    native,          \* typeof CSSScopeRule !== "undefined"
    started,         \* "no", then "hibernating", "running" or "threw"
    watch,           \* "none", "observer" (MutationObserver) or "events" (onMutation)
    called,          \* the properties of `events` the polyfill has called
    document,        \* the nodes attached to the document, by their top-level node
    processedNodes,  \* the WeakSet processedNodes
    mutations,       \* the added nodes notified and not yet passed to the callback
    awaiting,        \* per node, the processNode calls suspended at each await
    calls,           \* per node, the processNode calls made
    fetches,         \* per node, the fetch calls made
    transforms,      \* per node, the parseAndTransform calls made
    injections,      \* per node, the injectStyles calls made for its text
    generatedLinks,  \* the data-source of each link injectStyles created, in order
    failed,          \* the nodes whose fetch or text did not succeed
    appends          \* the nodes the page has added since start-up

coreVars == <<pc, fn, cssText, rootSelector, result>>

liveVars == <<events, native, started, watch, called, document, processedNodes,
              mutations, awaiting, calls, fetches, transforms, injections,
              generatedLinks, failed, appends>>

vars == <<coreVars, liveVars>>

-----------------------------------------------------------------------------
(* JavaScript values and string primitives *)

\* The value of an out-of-range index (text[-1], text[text.length]).
Undefined == "undefined"

\* null, and a string value t
Null == [type |-> "null"]
Str(t) == [type |-> "string", val |-> t]
\* an Array of strings
Arr(a) == [type |-> "array", val |-> a]
\* no call has returned yet
Pending == [type |-> "pending"]

\* White space as String.prototype.trim and the regex class \s see it (the
\* two agree); the characters of it that the alphabets below use.
WhiteSpace == {" ", "\t", "\n"}

CharAt(text, i) == IF i >= 0 /\ i < Len(text) THEN text[i + 1] ELSE Undefined

\* text.substring(a, b) for 0 <= a, b <= text.length
substring(text, a, b) == IF a <= b THEN SubSeq(text, a + 1, b) ELSE SubSeq(text, b + 1, a)

\* text.startsWith(pat, i): pat occurs in text at index i
StartsWithAt(text, pat, i) ==
    /\ i >= 0
    /\ i + Len(pat) <= Len(text)
    /\ \A k \in 1..Len(pat) : text[i + k] = pat[k]

\* text.includes(pat)
includes(text, pat) == \E i \in 0..Len(text) : StartsWithAt(text, pat, i)

\* text.indexOf(ch, from) for a one-character ch
indexOf(text, ch, from) ==
    LET hits == {i \in from..(Len(text) - 1) : CharAt(text, i) = ch}
    IN  IF hits = {} THEN -1 ELSE CHOOSE i \in hits : \A j \in hits : i <= j

RECURSIVE trimStart(_)
trimStart(text) ==
    IF text # <<>> /\ Head(text) \in WhiteSpace THEN trimStart(Tail(text)) ELSE text

RECURSIVE trimEnd(_)
trimEnd(text) ==
    IF text # <<>> /\ text[Len(text)] \in WhiteSpace
    THEN trimEnd(SubSeq(text, 1, Len(text) - 1))
    ELSE text

\* text.trim()
trim(text) == trimEnd(trimStart(text))

\* parts.join(sep)
RECURSIVE join(_, _)
join(parts, sep) ==
    IF parts = <<>> THEN <<>>
    ELSE IF Len(parts) = 1 THEN parts[1]
    ELSE parts[1] \o sep \o join(Tail(parts), sep)

\* GetSubstitution of String.prototype.replace for a regex without capture
\* groups: in the replacement text, $$ is "$", $& the matched text, $` the
\* text before the match, $' the text after it; every other "$x" is literal.
RECURSIVE GetSubstitution(_, _, _, _)
GetSubstitution(matched, str, position, replacement) ==
    IF replacement = <<>> THEN <<>>
    ELSE IF Head(replacement) = "$" /\ Len(replacement) >= 2
    THEN LET c == replacement[2]
             rest == SubSeq(replacement, 3, Len(replacement))
         IN  IF c = "$" THEN <<"$">> \o GetSubstitution(matched, str, position, rest)
             ELSE IF c = "&" THEN matched \o GetSubstitution(matched, str, position, rest)
             ELSE IF c = "`"
             THEN substring(str, 0, position)
                      \o GetSubstitution(matched, str, position, rest)
             ELSE IF c = "'"
             THEN substring(str, position + Len(matched), Len(str))
                      \o GetSubstitution(matched, str, position, rest)
             ELSE <<"$">> \o GetSubstitution(matched, str, position, Tail(replacement))
    ELSE <<Head(replacement)>> \o GetSubstitution(matched, str, position, Tail(replacement))

-----------------------------------------------------------------------------
(* splitByCommaBalanced *)

\* The for loop: one call is the iteration at index i.
RECURSIVE splitLoop(_, _, _, _, _, _, _)
splitLoop(text, i, parts, buffer, depth, inString, stringChar) ==
    IF i >= Len(text)
    THEN IF buffer # <<>> THEN Append(parts, buffer) ELSE parts
    ELSE LET char == CharAt(text, i)
             quote == (char = "\"" \/ char = "'") /\ CharAt(text, i - 1) # "\\"
             inString1 ==
                 IF quote
                 THEN IF inString /\ char = stringChar THEN FALSE
                      ELSE IF ~inString THEN TRUE ELSE inString
                 ELSE inString
             stringChar1 == IF quote /\ ~inString THEN char ELSE stringChar
             depth1 ==
                 IF ~inString1
                 THEN IF char = "(" THEN depth + 1
                      ELSE IF char = ")" THEN depth - 1 ELSE depth
                 ELSE depth
         IN  IF char = "," /\ depth1 = 0 /\ ~inString1
             THEN splitLoop(text, i + 1, Append(parts, buffer), <<>>, depth1,
                            inString1, stringChar1)
             ELSE splitLoop(text, i + 1, parts, Append(buffer, char), depth1,
                            inString1, stringChar1)

\* selectorLine.split(','): a cut at every comma
RECURSIVE splitAtEveryComma(_)
splitAtEveryComma(text) ==
    LET at == indexOf(text, ",", 0)
    IN  IF at = -1 THEN <<text>>
        ELSE <<substring(text, 0, at)>>
                 \o splitAtEveryComma(substring(text, at + 1, Len(text)))

splitByCommaBalanced(text) == splitLoop(text, 0, <<>>, <<>>, 0, FALSE, "")

-----------------------------------------------------------------------------
(* rewriteSelector *)

Scope == <<"s", "c", "o", "p", "e">>
ColonScope == <<":">> \o Scope

RECURSIVE skipSpace(_, _)
skipSpace(s, i) == IF CharAt(s, i) \in WhiteSpace THEN skipSpace(s, i + 1) ELSE i

\* The length of the match of /:\s*scope/ at index i of s, 0 when there is none.
scopeMatchLen(s, i) ==
    IF CharAt(s, i) # ":" THEN 0
    ELSE LET j == skipSpace(s, i + 1)
         IN  IF StartsWithAt(s, Scope, j) THEN j + Len(Scope) - i ELSE 0

\* s.replace(/:\s*scope/g, replacement), scanning from index i
RECURSIVE replaceScopeFrom(_, _, _)
replaceScopeFrom(s, i, replacement) ==
    IF i >= Len(s) THEN <<>>
    ELSE LET n == scopeMatchLen(s, i)
         IN  IF n > 0
             THEN GetSubstitution(substring(s, i, i + n), s, i, replacement)
                      \o replaceScopeFrom(s, i + n, replacement)
             ELSE <<CharAt(s, i)>> \o replaceScopeFrom(s, i + 1, replacement)

\* s.replace(/&/g, replacement), scanning from index i
RECURSIVE replaceAmpFrom(_, _, _)
replaceAmpFrom(s, i, replacement) ==
    IF i >= Len(s) THEN <<>>
    ELSE IF CharAt(s, i) = "&"
    THEN GetSubstitution(<<"&">>, s, i, replacement) \o replaceAmpFrom(s, i + 1, replacement)
    ELSE <<CharAt(s, i)>> \o replaceAmpFrom(s, i + 1, replacement)

\* The callback of parts.map
rewritePart(part, root) ==
    LET s == trim(part)
    IN  IF includes(s, ColonScope) THEN replaceScopeFrom(s, 0, root)
        ELSE IF includes(s, <<"&">>) THEN replaceAmpFrom(s, 0, root)
        ELSE root \o <<" ">> \o s

mapRewrite(parts, root) == [k \in 1..Len(parts) |-> rewritePart(parts[k], root)]

rewriteSelector(selectorLine, root) ==
    IF trim(selectorLine) = <<>> THEN <<>>
    ELSE join(mapRewrite(splitByCommaBalanced(selectorLine), root), <<",", " ">>)

-----------------------------------------------------------------------------
(* findClosingBrace *)

\* The for loop: one call is the iteration at index i with the depth so far.
RECURSIVE closingLoop(_, _, _)
closingLoop(text, i, depth) ==
    IF i >= Len(text) THEN -1
    ELSE LET char == CharAt(text, i)
             depth1 == IF char = "{" THEN depth + 1
                       ELSE IF char = "}" THEN depth - 1 ELSE depth
         IN  IF depth1 = 0 THEN i ELSE closingLoop(text, i + 1, depth1)

\* findClosingBrace taking the last closing brace of the text
findClosingBraceLast(text, openBraceIndex) ==
    LET hits == {i \in (openBraceIndex + 1)..(Len(text) - 1) : CharAt(text, i) = "}"}
    IN  IF hits = {} THEN -1 ELSE CHOOSE i \in hits : \A j \in hits : j <= i

findClosingBrace(text, openBraceIndex) == closingLoop(text, openBraceIndex + 1, 1)

-----------------------------------------------------------------------------
(* processBlock *)

UpperCase == <<"A", "B", "C", "D", "E", "F", "G", "H", "I", "J", "K", "L", "M",
               "N", "O", "P", "Q", "R", "S", "T", "U", "V", "W", "X", "Y", "Z">>
LowerCase == <<"a", "b", "c", "d", "e", "f", "g", "h", "i", "j", "k", "l", "m",
               "n", "o", "p", "q", "r", "s", "t", "u", "v", "w", "x", "y", "z">>

\* The canonical form under which the regex flag i compares characters
foldCase(c) ==
    IF \E k \in 1..Len(UpperCase) : UpperCase[k] = c
    THEN LowerCase[CHOOSE k \in 1..Len(UpperCase) : UpperCase[k] = c]
    ELSE c

Keyframes == <<"k", "e", "y", "f", "r", "a", "m", "e", "s">>
FontFace == <<"f", "o", "n", "t", "-", "f", "a", "c", "e">>

\* isDefinitionRule without the flag i
isDefinitionRuleCaseSensitive(headerRaw) ==
    \/ StartsWithAt(headerRaw, <<"@">> \o Keyframes, 0)
    \/ StartsWithAt(headerRaw, <<"@">> \o FontFace, 0)

\* /^@(keyframes|font-face)/i.test(headerRaw)
isDefinitionRule(headerRaw) ==
    LET folded == [k \in 1..Len(headerRaw) |-> foldCase(headerRaw[k])]
    IN  \/ StartsWithAt(folded, <<"@">> \o Keyframes, 0)
        \/ StartsWithAt(folded, <<"@">> \o FontFace, 0)

\* `${headerRaw} {${blockBody}}\n`
emitVerbatim(headerRaw, blockBody) ==
    headerRaw \o <<" ", "{">> \o blockBody \o <<"}", "\n">>

\* `${headerRaw} {\n${processedBody}\n}\n`
emitGroup(headerRaw, processedBody) ==
    headerRaw \o <<" ", "{", "\n">> \o processedBody \o <<"\n", "}", "\n">>

\* The plain-rule branch: the text added to result for headerRaw and blockBody
emitRule(headerRaw, blockBody, root) ==
    LET newSelector == rewriteSelector(headerRaw, root)
    IN  IF newSelector # <<>> THEN emitVerbatim(newSelector, blockBody) ELSE <<>>

\* blockLoop treating every at-rule as a definition at-rule: no recursion
RECURSIVE blockLoopFlat(_, _, _, _)
blockLoopFlat(text, root, cursor, acc) ==
    IF cursor >= Len(text) THEN acc
    ELSE LET openBrace == indexOf(text, "{", cursor)
         IN  IF openBrace = -1 THEN acc
             ELSE LET headerRaw == trim(substring(text, cursor, openBrace))
                      closeBrace == findClosingBrace(text, openBrace)
                  IN  IF closeBrace = -1 THEN acc
                      ELSE LET blockBody == substring(text, openBrace + 1, closeBrace)
                               piece ==
                                   IF StartsWithAt(headerRaw, <<"@">>, 0)
                                   THEN emitVerbatim(headerRaw, blockBody)
                                   ELSE emitRule(headerRaw, blockBody, root)
                           IN  blockLoopFlat(text, root, closeBrace + 1, acc \o piece)

\* blockLoop giving up the result so far at a brace without a closing brace
RECURSIVE blockLoopDiscard(_, _, _, _)
blockLoopDiscard(text, root, cursor, acc) ==
    IF cursor >= Len(text) THEN acc
    ELSE LET openBrace == indexOf(text, "{", cursor)
         IN  IF openBrace = -1 THEN acc
             ELSE LET headerRaw == trim(substring(text, cursor, openBrace))
                      closeBrace == findClosingBrace(text, openBrace)
                  IN  IF closeBrace = -1 THEN <<>>
                      ELSE LET blockBody == substring(text, openBrace + 1, closeBrace)
                               piece ==
                                   IF StartsWithAt(headerRaw, <<"@">>, 0)
                                   THEN IF isDefinitionRule(headerRaw)
                                        THEN emitVerbatim(headerRaw, blockBody)
                                        ELSE emitGroup(headerRaw,
                                                 blockLoopDiscard(blockBody, root, 0, <<>>))
                                   ELSE emitRule(headerRaw, blockBody, root)
                           IN  blockLoopDiscard(text, root, closeBrace + 1, acc \o piece)

\* The while loop of processBlock: one call is the iteration at `cursor`
\* with `acc` the result so far.
RECURSIVE blockLoop(_, _, _, _)
blockLoop(text, root, cursor, acc) ==
    IF cursor >= Len(text) THEN acc
    ELSE LET openBrace == indexOf(text, "{", cursor)
         IN  IF openBrace = -1 THEN acc
             ELSE LET headerRaw == trim(substring(text, cursor, openBrace))
                      closeBrace == findClosingBrace(text, openBrace)
                  IN  IF closeBrace = -1 THEN acc
                      ELSE LET blockBody == substring(text, openBrace + 1, closeBrace)
                               piece ==
                                   IF StartsWithAt(headerRaw, <<"@">>, 0)
                                   THEN IF isDefinitionRule(headerRaw)
                                        THEN emitVerbatim(headerRaw, blockBody)
                                        ELSE emitGroup(headerRaw,
                                                 blockLoop(blockBody, root, 0, <<>>))
                                   ELSE emitRule(headerRaw, blockBody, root)
                           IN  blockLoop(text, root, closeBrace + 1, acc \o piece)

processBlock(text, root) == blockLoop(text, root, 0, <<>>)

-----------------------------------------------------------------------------
(* parseAndTransform *)

\* The index just after the first "*/" at or after index j, -1 when none
commentEnd(text, j) ==
    LET hits == {k \in j..(Len(text) - 2) : StartsWithAt(text, <<"*", "/">>, k)}
    IN  IF hits = {} THEN -1 ELSE (CHOOSE k \in hits : \A m \in hits : k <= m) + 2

\* cssText.replace(/\/\*[\s\S]*?\*\//g, ''), scanning from index i
RECURSIVE stripComments(_, _)
stripComments(text, i) ==
    IF i >= Len(text) THEN <<>>
    ELSE IF StartsWithAt(text, <<"/", "*">>, i) /\ commentEnd(text, i + 2) # -1
    THEN stripComments(text, commentEnd(text, i + 2))
    ELSE <<CharAt(text, i)>> \o stripComments(text, i + 1)

AtScope == <<"@">> \o Scope

\* The match of /@scope\s*\(([^)]+)\)\s*{/ anchored at index i: the index
\* just after its "{" (index + match[0].length), -1 when it does not match.
scopeHeadEnd(text, i) ==
    IF ~StartsWithAt(text, AtScope, i) THEN -1
    ELSE LET open == skipSpace(text, i + Len(AtScope))
         IN  IF CharAt(text, open) # "(" THEN -1
             ELSE LET close == indexOf(text, ")", open + 1)
                  IN  IF close = -1 \/ close = open + 1 THEN -1
                      ELSE LET brace == skipSpace(text, close + 1)
                           IN  IF CharAt(text, brace) = "{" THEN brace + 1 ELSE -1

\* match[1] of the match anchored at index i
scopeHeadGroup(text, i) ==
    LET open == skipSpace(text, i + Len(AtScope))
    IN  substring(text, open + 1, indexOf(text, ")", open + 1))

\* scopeHeadRegex.exec(cleanCss) with lastIndex: match.index, -1 for null
scopeHeadExec(text, lastIndex) ==
    LET hits == {i \in lastIndex..(Len(text) - 1) : scopeHeadEnd(text, i) # -1}
    IN  IF hits = {} THEN -1 ELSE CHOOSE i \in hits : \A j \in hits : i <= j

\* extractLoop with unshift in place of push: the newest block goes first.
RECURSIVE extractLoopUnshift(_, _, _)
extractLoopUnshift(cleanCss, lastIndex, extractedRules) ==
    LET index == scopeHeadExec(cleanCss, lastIndex)
    IN  IF index = -1 THEN extractedRules
        ELSE LET scopeRootSelector == trim(scopeHeadGroup(cleanCss, index))
                 bodyStart == scopeHeadEnd(cleanCss, index)
                 bodyEnd == findClosingBrace(cleanCss, bodyStart - 1)
             IN  IF bodyEnd # -1
                 THEN extractLoopUnshift(cleanCss, bodyStart,
                          <<processBlock(substring(cleanCss, bodyStart, bodyEnd),
                                         scopeRootSelector)>> \o extractedRules)
                 ELSE extractLoopUnshift(cleanCss, bodyStart, extractedRules)

\* extractLoop leaving the loop at the first occurrence without a closing brace
RECURSIVE extractLoopBreak(_, _, _)
extractLoopBreak(cleanCss, lastIndex, extractedRules) ==
    LET index == scopeHeadExec(cleanCss, lastIndex)
    IN  IF index = -1 THEN extractedRules
        ELSE LET scopeRootSelector == trim(scopeHeadGroup(cleanCss, index))
                 bodyStart == scopeHeadEnd(cleanCss, index)
                 bodyEnd == findClosingBrace(cleanCss, bodyStart - 1)
             IN  IF bodyEnd # -1
                 THEN extractLoopBreak(cleanCss, bodyStart,
                          Append(extractedRules,
                                 processBlock(substring(cleanCss, bodyStart, bodyEnd),
                                              scopeRootSelector)))
                 ELSE extractedRules

\* The while loop over the matches: one call is one exec from lastIndex.
RECURSIVE extractLoop(_, _, _)
extractLoop(cleanCss, lastIndex, extractedRules) ==
    LET index == scopeHeadExec(cleanCss, lastIndex)
    IN  IF index = -1 THEN extractedRules
        ELSE LET scopeRootSelector == trim(scopeHeadGroup(cleanCss, index))
                 bodyStart == scopeHeadEnd(cleanCss, index)
                 bodyEnd == findClosingBrace(cleanCss, bodyStart - 1)
             IN  IF bodyEnd # -1
                 THEN extractLoop(cleanCss, bodyStart,
                          Append(extractedRules,
                                 processBlock(substring(cleanCss, bodyStart, bodyEnd),
                                              scopeRootSelector)))
                 ELSE extractLoop(cleanCss, bodyStart, extractedRules)

\* extractScopes returning null for an empty joined text too
extractScopesFalsy(cleanCss) ==
    LET joined == join(extractLoop(cleanCss, 0, <<>>), <<"\n">>)
    IN  IF joined # <<>> THEN Str(joined) ELSE Null

\* Lines 135-151: the scan of the comment-free text
extractScopes(cleanCss) ==
    LET extractedRules == extractLoop(cleanCss, 0, <<>>)
    IN  IF Len(extractedRules) > 0 THEN Str(join(extractedRules, <<"\n">>)) ELSE Null

\* parseAndTransform without the comment strip
parseAndTransformRaw(text) == extractScopes(text)

parseAndTransform(text) == extractScopes(stripComments(text, 0))

-----------------------------------------------------------------------------
(* The inputs of the runs: every text made of at most MaxTokens pieces *)

RECURSIVE Flatten(_)
Flatten(pieces) == IF pieces = <<>> THEN <<>> ELSE Head(pieces) \o Flatten(Tail(pieces))

Texts(tokens, n) == {Flatten(f) : f \in UNION {[1..k -> tokens] : k \in 0..n}}

MaxSheetTokens == 4
MaxSheetBlocks == 3
MaxBodyTokens == 5
MaxSelectorTokens == 4
MaxSelectorPhrases == 3

\* Small pieces of a stylesheet: heads, a rule, braces, comment marks
SheetTokens == {
    <<"@", "s", "c", "o", "p", "e", " ", "(", ".", "a", ")", " ", "{">>,   \* @scope (.a) {
    <<"@", "s", "c", "o", "p", "e", "(", ".", "b", ")", "{">>,   \* @scope(.b){
    <<"p", "{", "c", "}">>,   \* p{c}
    <<"}">>,   \* }
    <<"{">>,   \* {
    <<"/", "*">>,   \* /*
    <<"*", "/">>,   \* */
    <<"@", "s", "c", "o", "p", "e">>   \* @scope
}

\* Whole scope blocks, one of them without its closing brace, and a closing brace
SheetBlocks == {
    <<"@", "s", "c", "o", "p", "e", " ", "(", ".", "a", ")", " ", "{", "p", "{", "c", "}", "}">>,   \* @scope (.a) {p{c}}
    <<"@", "s", "c", "o", "p", "e", "(", ".", "b", ")", "{", "q", "{", "d", "}", "@", "m", "e", "d", "i", "a", " ", "x", "{", ":", "s", "c", "o", "p", "e", "{", "e", "}", "}", "}">>,   \* @scope(.b){q{d}@media x{:scope{e}}}
    <<"@", "s", "c", "o", "p", "e", " ", "(", ".", "c", ")", " ", "{", "@", "k", "e", "y", "f", "r", "a", "m", "e", "s", " ", "k", "{", "f", "{", "g", "}", "}", "&", ">", "i", "{", "h", "}">>,   \* @scope (.c) {@keyframes k{f{g}}&>i{h}
    <<"}">>   \* }
}

\* The stylesheet texts that reach parseAndTransform: processNode returns
\* before the call when the text does not include '@scope'
Sheets ==
    {t \in Texts(SheetTokens, MaxSheetTokens) \cup Texts(SheetBlocks, MaxSheetBlocks) :
        includes(t, AtScope)}

\* Pieces of a scope body.  processBlock is run on every text made of them,
\* brace-balanced or not.
BodyTokens == {
    <<"@", "m", "e", "d", "i", "a", " ", "(", "x", ",", "&", ")", " ", "{">>,   \* @media (x,&) {
    <<"@", "k", "e", "y", "f", "r", "a", "m", "e", "s", " ", "k", "{">>,   \* @keyframes k{
    <<"@", "F", "O", "N", "T", "-", "f", "a", "c", "e", "{", "&", "{", ":", "s", "c", "o", "p", "e", "}", "}">>,   \* @FONT-face{&{:scope}}
    <<"p", "{", "c", "}">>,   \* p{c}
    <<":", "s", "c", "o", "p", "e", ",", "&", " ", "q", "{", "&", "}">>,   \* :scope,& q{&}
    <<"}">>   \* }
}

Bodies == Texts(BodyTokens, MaxBodyTokens)

MaxWalkTokens == 4

\* The shorter bodies of the runs that follow the walk to where it stops
WalkBodies == Texts(BodyTokens, MaxWalkTokens)

\* Pieces of a selector list: single characters and the word scope
SelectorTokens == {
    <<"a">>,   \* a
    <<" ">>,   \*  
    <<",">>,   \* ,
    <<"(">>,   \* (
    <<")">>,   \* )
    <<"\"">>,   \* "
    <<"'">>,   \* '
    <<"\\">>,   \* \
    <<"&">>,   \* &
    <<":">>,   \* :
    <<"s", "c", "o", "p", "e">>   \* scope
}

\* Longer pieces of a selector list
SelectorPhrases == {
    <<":", "i", "s", "(", ".", "a", ",", " ", ".", "b", ")">>,   \* :is(.a, .b)
    <<",", " ">>,   \* , 
    <<".", "c">>,   \* .c
    <<"[", "v", "=", "\"", "a", ",", "b", "\"", "]">>,   \* [v="a,b"]
    <<":", "s", "c", "o", "p", "e">>,   \* :scope
    <<":", " ", "s", "c", "o", "p", "e">>,   \* : scope
    <<"&">>,   \* &
    <<" ", ">", " ">>   \*  > 
}

\* The selector lists that reach rewriteSelector: processBlock passes the
\* trimmed header
SelectorLines ==
    {t \in Texts(SelectorTokens, MaxSelectorTokens)
               \cup Texts(SelectorPhrases, MaxSelectorPhrases) :
        trim(t) = t}

\* Root selectors: what ([^)]+) captures, trimmed
Roots == {
    <<".", "r">>,   \* .r
    <<"$", "&">>,   \* $&
    <<"$", "$">>,   \* $$
    <<"$", "'">>   \* $'
}

\* Root selectors of the processBlock runs
BodyRoots == {<<".", "r">>, <<"$", "&">>}

MaxRuleTokens == 5

\* Pieces of a body of plain rules whose selector lists have empty elements
RuleTokens == {
    <<"a">>,   \* a
    <<",">>,   \* ,
    <<" ">>,   \*  
    <<"{", "c", "}">>   \* {c}
}

RuleBodies == Texts(RuleTokens, MaxRuleTokens)

-----------------------------------------------------------------------------
(* CSSScopePolyfill: the page it runs in *)

\* `events` when the call passes no argument, and when it passes an object
\* with the given properties (each a function)
NoEvents == [type |-> "undefined"]
EventsObject(keys) == [type |-> "object", keys |-> keys]

\* The options object of the README: { watcher: (processCallback) => ... }
WatcherOptions == EventsObject({"watcher"})

\* The arguments of the runs: none, an EventSystem, and the options object
\* with a `watcher` function
EventsArguments == {NoEvents, EventsObject({"onMutation"}), WatcherOptions}

\* The links injectStyles can create, in the order it creates them
GeneratedPool == <<"blob1", "blob2", "blob3">>
GeneratedNodes == {GeneratedPool[k] : k \in 1..Len(GeneratedPool)}

\* The nodes of the page: style elements, link elements, a container
\* element that holds the style element "inner", and a text node
StyleNodes == {"style", "inner", "empty", "plain"}
LinkNodes == {"link", "nohref"}
PageNodes == StyleNodes \cup LinkNodes \cup {"div", "note"}
Nodes == PageNodes \cup GeneratedNodes

\* Document order
DocumentOrder == <<"style", "link", "nohref", "div", "inner", "empty", "plain",
                   "note">> \o GeneratedPool

\* The nodes the page has at start-up, and those it can add later
InitialNodes == {"style", "link", "plain"}
AddedNodes == {"link", "nohref", "div", "empty", "note"}

MaxAppends == 2

nodeType(node) == IF node = "note" THEN 3 ELSE 1

tagName(node) ==
    IF node \in StyleNodes THEN "STYLE"
    ELSE IF node \in LinkNodes \cup GeneratedNodes THEN "LINK"
    ELSE IF node = "div" THEN "DIV"
    ELSE "#text"

rel(node) == IF tagName(node) = "LINK" THEN "stylesheet" ELSE ""

href(node) ==
    IF node = "link" THEN "a.css"
    ELSE IF node \in GeneratedNodes THEN "blob:"
    ELSE ""

\* node.hasAttribute('data-polyfill-generated')
hasAttribute(node) == node \in GeneratedNodes

\* The element node stands in, "" when it stands in the document itself
parentOf(node) == IF node = "inner" THEN "div" ELSE ""

\* The selector 'link[rel="stylesheet"], style'
matchesSelector(node) ==
    (tagName(node) = "LINK" /\ rel(node) = "stylesheet") \/ tagName(node) = "STYLE"

\* querySelectorAll of the selector, on the document whose top-level nodes
\* are `attached`
querySelectorAll(attached) ==
    LET found(node) ==
            matchesSelector(node) /\ (node \in attached \/ parentOf(node) \in attached)
    IN  SelectSeq(DocumentOrder, found)

\* el.querySelectorAll of the selector: the descendants of el that match
querySelectorAllIn(el) ==
    LET found(node) == matchesSelector(node) /\ parentOf(node) = el
    IN  SelectSeq(DocumentOrder, found)

isStyleNode(node) ==
    (tagName(node) = "LINK" /\ rel(node) = "stylesheet") \/ tagName(node) = "STYLE"

\* The CSS text of each node: textContent of a style element, the response
\* text of a link
PageText(node) ==
    IF node = "style" THEN <<"@", "s", "c", "o", "p", "e", " ", "(", ".", "a", ")", " ", "{", "p", "{", "c", "}", "}">>   \* @scope (.a) {p{c}}
    ELSE IF node \in {"link", "inner"} THEN <<"@", "s", "c", "o", "p", "e", "(", ".", "b", ")", "{", "q", "{", "d", "}", "}">>   \* @scope(.b){q{d}}
    ELSE IF node = "empty" THEN <<"@", "s", "c", "o", "p", "e", "(", ".", "b", ")", "{", "}">>   \* @scope(.b){}
    ELSE IF node = "plain" THEN <<"p", "{", "c", "}">>   \* p{c}
    ELSE <<>>

\* A value `if (transformedCss)` takes as true
truthy(value) == value # Null /\ value.val # <<>>

\* The texts of the page, and parseAndTransform of each, computed once
PageTexts == {PageText(node) : node \in PageNodes}
includesScope == [text \in PageTexts |-> includes(text, AtScope)]
transformed == [text \in PageTexts |-> parseAndTransform(text)]

\* The text of node when `links` are the data-source of the generated
\* links: a generated link holds the transformed text of its source
textOf(links, node) ==
    IF node \in GeneratedNodes
    THEN LET k == CHOOSE i \in 1..Len(GeneratedPool) : GeneratedPool[i] = node
         IN  IF k <= Len(links) THEN transformed[PageText(links[k])].val ELSE <<>>
    ELSE PageText(node)

-----------------------------------------------------------------------------
(* CSSScopePolyfill: processNode, injectStyles, observeMutations *)

\* The state the functions below read and change
Live ==
    [watch |-> watch, document |-> document, processedNodes |-> processedNodes,
     mutations |-> mutations, awaiting |-> awaiting, calls |-> calls,
     fetches |-> fetches, transforms |-> transforms, injections |-> injections,
     generatedLinks |-> generatedLinks, failed |-> failed]

\* The state after the step is st
Becomes(st) ==
    /\ document' = st.document
    /\ processedNodes' = st.processedNodes
    /\ mutations' = st.mutations
    /\ awaiting' = st.awaiting
    /\ calls' = st.calls
    /\ fetches' = st.fetches
    /\ transforms' = st.transforms
    /\ injections' = st.injections
    /\ generatedLinks' = st.generatedLinks
    /\ failed' = st.failed

\* injectStyles(cssText, source): a new link, marked as generated, is
\* appended to the head; a watched document notifies the addition.  The
\* links of GeneratedPool suffice for every source of the page.
injectStyles(st, transformedCss, source) ==
    LET n == Len(st.generatedLinks)
        counted == [st EXCEPT !.injections[source] = @ + 1]
    IN  IF n >= Len(GeneratedPool) THEN counted
        ELSE [counted EXCEPT
                 !.generatedLinks = Append(@, source),
                 !.document = @ \cup {GeneratedPool[n + 1]},
                 !.mutations = IF st.watch = "none" THEN @
                               ELSE Append(@, GeneratedPool[n + 1])]

\* Lines 64-71 of processNode, with cssText read or fetched
transformAndInject(st, node, text) ==
    IF ~(IF text \in PageTexts THEN includesScope[text] ELSE includes(text, AtScope))
    THEN st
    ELSE LET called1 == [st EXCEPT !.transforms[node] = @ + 1]
         IN  CHOOSE last \in
                 {IF truthy(transformedCss)
                  THEN injectStyles(called1, transformedCss, node)
                  ELSE called1 :
                      transformedCss \in
                          {IF text \in PageTexts THEN transformed[text]
                           ELSE parseAndTransform(text)}} : TRUE

\* processNode without the guard of line 42
processNodeUnguarded(st, node) ==
    LET entered == [st EXCEPT !.calls[node] = @ + 1]
    IN  IF node \in st.processedNodes THEN entered
        ELSE LET marked == [entered EXCEPT !.processedNodes = @ \cup {node}]
             IN  IF tagName(node) = "LINK"
                 THEN IF rel(node) # "stylesheet" \/ href(node) = "" THEN marked
                      ELSE [marked EXCEPT !.fetches[node] = @ + 1,
                                          !.awaiting[node].fetch = @ + 1]
                 ELSE IF tagName(node) = "STYLE"
                 THEN transformAndInject(marked, node,
                                         textOf(marked.generatedLinks, node))
                 ELSE marked

\* processNode(node) up to its first await, or to its end when it awaits
\* nothing
processNode(st, node) ==
    LET entered == [st EXCEPT !.calls[node] = @ + 1]
    IN  IF node \in st.processedNodes THEN entered
        ELSE LET marked == [entered EXCEPT !.processedNodes = @ \cup {node}]
             IN  IF hasAttribute(node) THEN marked
                 ELSE IF tagName(node) = "LINK"
                 THEN IF rel(node) # "stylesheet" \/ href(node) = "" THEN marked
                      ELSE [marked EXCEPT !.fetches[node] = @ + 1,
                                          !.awaiting[node].fetch = @ + 1]
                 ELSE IF tagName(node) = "STYLE"
                 THEN transformAndInject(marked, node,
                                         textOf(marked.generatedLinks, node))
                 ELSE marked

\* nodes.forEach(processNode): the state after each call is computed once
\* and handed to the next call
RECURSIVE forEach(_, _)
forEach(st, nodes) ==
    IF nodes = <<>> THEN st
    ELSE CHOOSE last \in {forEach(next, Tail(nodes)) :
                              next \in {processNode(st, Head(nodes))}} : TRUE

\* The callback on one added node, taking only the node itself
addedNodeFlat(st, node) ==
    IF nodeType(node) = 1 /\ isStyleNode(node) THEN processNode(st, node) ELSE st

\* The callback on one added node (lines 85-90 and 98-103)
addedNode(st, node) ==
    IF nodeType(node) = 1
    THEN IF isStyleNode(node) THEN processNode(st, node)
         ELSE forEach(st, querySelectorAllIn(node))
    ELSE st

\* The loop of the callback over the added nodes it was given
RECURSIVE addedLoop(_, _)
addedLoop(st, added) ==
    IF added = <<>> THEN st
    ELSE CHOOSE last \in {addedLoop(next, Tail(added)) :
                              next \in {addedNode(st, Head(added))}} : TRUE

\* observeMutations(): what it leaves behind for each argument.  Calling
\* events.onMutation when the object has no such property throws a TypeError.
observeMutations(ev) ==
    IF ev # NoEvents
    THEN IF "onMutation" \in ev.keys
         THEN [watch |-> "events", called |-> {"onMutation"}, started |-> "running"]
         ELSE [watch |-> "none", called |-> {}, started |-> "threw"]
    ELSE [watch |-> "observer", called |-> {}, started |-> "running"]

-----------------------------------------------------------------------------
(* The runs *)

\* No polyfill has been started and there is no page: the state of the runs
\* of one function
NotStarted ==
    /\ events = NoEvents
    /\ native = FALSE
    /\ started = "no"
    /\ watch = "none"
    /\ called = {}
    /\ document = {}
    /\ processedNodes = {}
    /\ mutations = <<>>
    /\ awaiting = <<>>
    /\ calls = <<>>
    /\ fetches = <<>>
    /\ transforms = <<>>
    /\ injections = <<>>
    /\ generatedLinks = <<>>
    /\ failed = {}
    /\ appends = 0

\* One call of parseAndTransform on a stylesheet text
InitSheet ==
    /\ pc = "ready"
    /\ fn = "parseAndTransform"
    /\ cssText \in Sheets
    /\ rootSelector = <<>>
    /\ result = Pending
    /\ NotStarted

CallParseAndTransform ==
    /\ pc = "ready"
    /\ fn = "parseAndTransform"
    /\ result' = parseAndTransform(cssText)
    /\ pc' = "done"
    /\ UNCHANGED <<fn, cssText, rootSelector, liveVars>>

NextSheet == CallParseAndTransform

Spec == InitSheet /\ [][NextSheet]_vars

\* One call of rewriteSelector or of splitByCommaBalanced on a selector list
InitSelector ==
    /\ pc = "ready"
    /\ cssText \in SelectorLines
    /\ \/ fn = "rewriteSelector" /\ rootSelector \in Roots
       \/ fn = "splitByCommaBalanced" /\ cssText # <<>> /\ rootSelector = <<>>
    /\ result = Pending
    /\ NotStarted

CallRewriteSelector ==
    /\ pc = "ready"
    /\ fn = "rewriteSelector"
    /\ result' = Str(rewriteSelector(cssText, rootSelector))
    /\ pc' = "done"
    /\ UNCHANGED <<fn, cssText, rootSelector, liveVars>>

CallSplitByCommaBalanced ==
    /\ pc = "ready"
    /\ fn = "splitByCommaBalanced"
    /\ result' = Arr(splitByCommaBalanced(cssText))
    /\ pc' = "done"
    /\ UNCHANGED <<fn, cssText, rootSelector, liveVars>>

NextSelector == CallRewriteSelector \/ CallSplitByCommaBalanced

SpecSelector == InitSelector /\ [][NextSelector]_vars

\* One call of processBlock on a body text with a root selector
InitBody ==
    /\ pc = "ready"
    /\ fn = "processBlock"
    /\ cssText \in Bodies
    /\ rootSelector \in BodyRoots
    /\ result = Pending
    /\ NotStarted

CallProcessBlock ==
    /\ pc = "ready"
    /\ fn = "processBlock"
    /\ result' = Str(processBlock(cssText, rootSelector))
    /\ pc' = "done"
    /\ UNCHANGED <<fn, cssText, rootSelector, liveVars>>

NextBody == CallProcessBlock

SpecBody == InitBody /\ [][NextBody]_vars

\* One call of processBlock on a shorter body, brace-balanced or not
InitWalk ==
    /\ pc = "ready"
    /\ fn = "processBlock"
    /\ cssText \in WalkBodies
    /\ rootSelector \in BodyRoots
    /\ result = Pending
    /\ NotStarted

SpecWalk == InitWalk /\ [][NextBody]_vars

\* One call of processBlock on a body of plain rules
InitRule ==
    /\ pc = "ready"
    /\ fn = "processBlock"
    /\ cssText \in RuleBodies
    /\ rootSelector \in BodyRoots
    /\ result = Pending
    /\ NotStarted

SpecRule == InitRule /\ [][NextBody]_vars

\* One call of CSSScopePolyfill(events) in a page, and what follows it
InitLive ==
    /\ pc = "live"
    /\ fn = "CSSScopePolyfill"
    /\ cssText = <<>>
    /\ rootSelector = <<>>
    /\ result = Pending
    /\ events \in EventsArguments
    /\ native \in BOOLEAN
    /\ started = "no"
    /\ watch = "none"
    /\ called = {}
    /\ document \in SUBSET InitialNodes
    /\ processedNodes = {}
    /\ mutations = <<>>
    /\ awaiting = [node \in Nodes |-> [fetch |-> 0, text |-> 0]]
    /\ calls = [node \in Nodes |-> 0]
    /\ fetches = [node \in Nodes |-> 0]
    /\ transforms = [node \in Nodes |-> 0]
    /\ injections = [node \in Nodes |-> 0]
    /\ generatedLinks = <<>>
    /\ failed = {}
    /\ appends = 0

\* CSSScopePolyfill(events): feature detection, the scan of the document,
\* observeMutations()
Start ==
    /\ started = "no"
    /\ IF native
       THEN /\ started' = "hibernating"
            /\ UNCHANGED <<watch, called, document, processedNodes, mutations,
                           awaiting, calls, fetches, transforms, injections,
                           generatedLinks, failed>>
       ELSE LET observed == observeMutations(events)
            IN  /\ Becomes(forEach(Live, querySelectorAll(document)))
                /\ watch' = observed.watch
                /\ called' = observed.called
                /\ started' = observed.started
    /\ UNCHANGED <<events, native, appends, coreVars>>

\* The page adds a node to the document (again, when it is there already);
\* a watched document notifies the addition
AppendNode(node) ==
    /\ started # "no"
    /\ appends < MaxAppends
    /\ appends' = appends + 1
    /\ document' = document \cup {node}
    /\ mutations' = IF watch = "none" THEN mutations ELSE Append(mutations, node)
    /\ UNCHANGED <<events, native, started, watch, called, processedNodes, awaiting,
                   calls, fetches, transforms, injections, generatedLinks, failed,
                   coreVars>>

\* The callback given to MutationObserver or to events.onMutation runs on
\* the additions notified so far
MutationCallback ==
    /\ watch # "none"
    /\ mutations # <<>>
    /\ Becomes(addedLoop([Live EXCEPT !.mutations = <<>>], mutations))
    /\ UNCHANGED <<events, native, started, watch, called, appends, coreVars>>

\* `await fetch(sourceUrl)` of a suspended processNode(node) settles: with
\* a response that is ok, with one that is not, or by rejecting
FetchSettles(node) ==
    /\ awaiting[node].fetch > 0
    /\ \E outcome \in {"ok", "not ok", "rejected"} :
           IF outcome = "ok"
           THEN /\ awaiting' = [awaiting EXCEPT ![node].fetch = @ - 1,
                                                ![node].text = @ + 1]
                /\ UNCHANGED failed
           ELSE /\ awaiting' = [awaiting EXCEPT ![node].fetch = @ - 1]
                /\ failed' = failed \cup {node}
    /\ UNCHANGED <<events, native, started, watch, called, document, processedNodes,
                   mutations, calls, fetches, transforms, injections, generatedLinks,
                   appends, coreVars>>

\* `await response.text()` of a suspended processNode(node) settles, and
\* the call runs to its end
TextSettles(node) ==
    /\ awaiting[node].text > 0
    /\ \E outcome \in {"ok", "rejected"} :
           LET resumed == [Live EXCEPT !.awaiting[node].text = @ - 1]
           IN  IF outcome = "ok"
               THEN Becomes(transformAndInject(resumed, node,
                                               textOf(generatedLinks, node)))
               ELSE Becomes([resumed EXCEPT !.failed = @ \cup {node}])
    /\ UNCHANGED <<events, native, started, watch, called, appends, coreVars>>

NextLive ==
    \/ Start
    \/ \E node \in AddedNodes : AppendNode(node)
    \/ MutationCallback
    \/ \E node \in Nodes : FetchSettles(node)
    \/ \E node \in Nodes : TextSettles(node)

SpecLive == InitLive /\ [][NextLive]_vars

\* The event loop runs every callback that is ready, and every fetch settles
FairLive ==
    /\ WF_vars(Start)
    /\ WF_vars(MutationCallback)
    /\ \A node \in Nodes : WF_vars(FetchSettles(node))
    /\ \A node \in Nodes : WF_vars(TextSettles(node))

SpecLiveFair == SpecLive /\ FairLive

-----------------------------------------------------------------------------
(* What the claims speak of, for a stylesheet text *)

\* The text the scan runs over
Clean == stripComments(cssText, 0)

\* The indices at which a scope at-rule head stands in text
HeadStarts(text) == {i \in 0..(Len(text) - 1) : scopeHeadEnd(text, i) # -1}

\* The scope at-rule occurrences: the heads that do not lie inside the text
\* of an earlier head
Occurrences(text) ==
    {i \in HeadStarts(text) :
        \A j \in HeadStarts(text) : j < i => scopeHeadEnd(text, j) <= i}

\* The index of the closing brace of the occurrence at i, -1 when it has none
ClosingOf(text, i) == findClosingBrace(text, scopeHeadEnd(text, i) - 1)

Balanced(text) == {i \in Occurrences(text) : ClosingOf(text, i) # -1}
Skipped(text) == {i \in Occurrences(text) : ClosingOf(text, i) = -1}

BodyOf(text, i) == substring(text, scopeHeadEnd(text, i), ClosingOf(text, i))

\* The transformed segment of the balanced occurrence at i
SegmentOf(text, i) == processBlock(BodyOf(text, i), trim(scopeHeadGroup(text, i)))

\* The segments of the occurrences in `at`, by increasing index
RECURSIVE SegmentsInOrder(_, _)
SegmentsInOrder(text, at) ==
    IF at = {} THEN <<>>
    ELSE LET first == CHOOSE i \in at : \A j \in at : i <= j
         IN  <<SegmentOf(text, first)>> \o SegmentsInOrder(text, at \ {first})

\* Two results one after the other: NoMatch adds nothing, texts are joined
\* by a newline
ThenResult(x, y) ==
    IF x = Null THEN y
    ELSE IF y = Null THEN x
    ELSE Str(x.val \o <<"\n">> \o y.val)

\* The cuts of text that go through no scope occurrence: the indices p such
\* that every head before p ends before p, and so does its body when it has
\* one
IndependentCuts(text) ==
    LET heads == HeadStarts(text)
        ends == [i \in heads |->
                    IF ClosingOf(text, i) = -1 THEN scopeHeadEnd(text, i)
                    ELSE ClosingOf(text, i) + 1]
    IN  {p \in 0..Len(text) : \A i \in heads : i < p => ends[i] <= p}

\* The number of "{" minus the number of "}" in the first q characters
RECURSIVE BraceDepth(_, _)
BraceDepth(text, q) ==
    IF q = 0 THEN 0
    ELSE BraceDepth(text, q - 1)
             + (IF text[q] = "{" THEN 1 ELSE IF text[q] = "}" THEN -1 ELSE 0)

\* q is the index just after a top-level construct of a brace-balanced body
ConstructEnd(body, q) ==
    /\ q >= 1
    /\ CharAt(body, q - 1) = "}"
    /\ BraceDepth(body, q) = 0

SheetDone == pc = "done" /\ fn = "parseAndTransform"

-----------------------------------------------------------------------------
\* C1: a stylesheet text with no scope at-rule head after comment stripping
\* (the keyword only in a comment, or not followed by a parenthesised root
\* selector and an opening brace) makes parseAndTransform return null, never
\* a string.
C1_NoHeadGivesNull ==
    (SheetDone /\ HeadStarts(Clean) = {}) => result = Null

\* A text that holds a whole scope head, but only inside a comment: the call
\* returned null.
C1_Witness ==
    /\ SheetDone
    /\ HeadStarts(Clean) = {}
    /\ result = Null
    /\ includes(cssText, AtScope)
    /\ HeadStarts(cssText) # {}

\* C2 as claimed: the result is null or a non-empty text, never the empty
\* string.
C2_NeverEmptyString ==
    SheetDone => (result = Null \/ (result.type = "string" /\ result.val # <<>>))

\* C2 as amended: the result is null or a text; it is null exactly when no
\* scope occurrence with a balanced body was found; and it is the empty
\* string exactly when a single balanced occurrence was found and its body
\* transformed to nothing.
C2_NullIffNoBlock ==
    SheetDone =>
        /\ result = Null \/ result.type = "string"
        /\ result = Null <=> Balanced(Clean) = {}
        /\ result = Str(<<>>) <=>
               /\ Cardinality(Balanced(Clean)) = 1
               /\ \A i \in Balanced(Clean) : SegmentOf(Clean, i) = <<>>

\* A scope block was found, all its rules were dropped, and the call
\* returned the empty string.
C2_Witness ==
    /\ SheetDone
    /\ result = Str(<<>>)
    /\ \E i \in Balanced(Clean) : includes(BodyOf(Clean, i), <<"{">>)

\* C3: output order is source order.  Cutting the comment-free text between
\* two scope occurrences, the result is the result of the left part, a
\* newline, and the result of the right part; and cutting the body of an
\* occurrence after one of its constructs, its segment is the transform of
\* the constructs before the cut followed by the transform of those after.
C3_SourceOrder ==
    SheetDone =>
        LET clean == Clean
        IN  /\ \A p \in IndependentCuts(clean) :
                   result = ThenResult(extractScopes(substring(clean, 0, p)),
                                       extractScopes(substring(clean, p, Len(clean))))
            /\ \A i \in Balanced(clean) :
                   LET body == BodyOf(clean, i)
                       root == trim(scopeHeadGroup(clean, i))
                       whole == processBlock(body, root)
                   IN  \A q \in 1..Len(body) :
                           ConstructEnd(body, q) =>
                               whole = processBlock(substring(body, 0, q), root)
                                           \o processBlock(substring(body, q, Len(body)), root)

\* Two independent occurrences with different non-empty segments, the
\* second with two constructs in its body.
C3_Witness ==
    /\ SheetDone
    /\ \E i, j \in Balanced(Clean) :
           /\ i < j
           /\ j \in IndependentCuts(Clean)
           /\ SegmentOf(Clean, i) # <<>>
           /\ SegmentOf(Clean, j) # <<>>
           /\ SegmentOf(Clean, i) # SegmentOf(Clean, j)
           /\ \E q \in 1..(Len(BodyOf(Clean, j)) - 1) : ConstructEnd(BodyOf(Clean, j), q)
           /\ result = Str(SegmentOf(Clean, i) \o <<"\n">> \o SegmentOf(Clean, j))

\* C4: an occurrence whose opening brace has no balanced closing brace adds
\* no segment and does not end the pass: the result is made of the segments
\* of exactly the balanced occurrences, before and after a skipped one, in
\* source order.
C4_SkippedDoesNotAbort ==
    SheetDone =>
        result = IF Balanced(Clean) = {} THEN Null
                 ELSE Str(join(SegmentsInOrder(Clean, Balanced(Clean)), <<"\n">>))

\* A skipped occurrence with a balanced one before it and one after it,
\* both in the result.
C4_Witness ==
    /\ SheetDone
    /\ \E s \in Skipped(Clean) :
           \E i, j \in Balanced(Clean) :
               /\ i < s
               /\ s < j
               /\ SegmentOf(Clean, i) # <<>>
               /\ SegmentOf(Clean, j) # <<>>
               /\ result = Str(SegmentOf(Clean, i) \o <<"\n">> \o SegmentOf(Clean, j))

-----------------------------------------------------------------------------
(* What the claims speak of, for a selector list *)

RewriteDone == pc = "done" /\ fn = "rewriteSelector"
SplitDone == pc = "done" /\ fn = "splitByCommaBalanced"

\* s holds the scope-root placeholder: a colon, any white space, the word scope
HasScopePlaceholder(s) == \E i \in 0..(Len(s) - 1) : scopeMatchLen(s, i) > 0

\* s from index i on, with every scope-root placeholder replaced by the
\* characters of root
RECURSIVE VerbatimScope(_, _, _)
VerbatimScope(s, i, root) ==
    IF i >= Len(s) THEN <<>>
    ELSE IF scopeMatchLen(s, i) > 0
    THEN root \o VerbatimScope(s, i + scopeMatchLen(s, i), root)
    ELSE <<CharAt(s, i)>> \o VerbatimScope(s, i + 1, root)

\* s with every "&" replaced by the characters of root
RECURSIVE VerbatimAmp(_, _)
VerbatimAmp(s, root) ==
    IF s = <<>> THEN <<>>
    ELSE (IF Head(s) = "&" THEN root ELSE <<Head(s)>>) \o VerbatimAmp(Tail(s), root)

\* The one rule the priority order gives a selector s
RuleByPriority(s, root) ==
    IF HasScopePlaceholder(s) THEN replaceScopeFrom(s, 0, root)
    ELSE IF includes(s, <<"&">>) THEN replaceAmpFrom(s, 0, root)
    ELSE root \o <<" ">> \o s

\* The quote character that is open after the first n characters of text,
\* "" when no string is open: a quote not preceded by a backslash opens a
\* string, and closes the string its own kind opened
RECURSIVE QuoteOpenAfter(_, _)
QuoteOpenAfter(text, n) ==
    IF n = 0 THEN ""
    ELSE LET before == QuoteOpenAfter(text, n - 1)
             c == text[n]
             escaped == n >= 2 /\ text[n - 1] = "\\"
         IN  IF (c = "\"" \/ c = "'") /\ ~escaped
             THEN IF before = "" THEN c ELSE IF before = c THEN "" ELSE before
             ELSE before

\* The parenthesis depth after the first n characters of text, counting only
\* the parentheses outside strings
RECURSIVE ParenDepthAfter(_, _)
ParenDepthAfter(text, n) ==
    IF n = 0 THEN 0
    ELSE ParenDepthAfter(text, n - 1)
             + (IF QuoteOpenAfter(text, n) # "" THEN 0
                ELSE IF text[n] = "(" THEN 1
                ELSE IF text[n] = ")" THEN -1 ELSE 0)

\* The positions (from 1) of the commas at depth 0 outside strings
TopLevelCommas(text) ==
    {n \in 1..Len(text) :
        /\ text[n] = ","
        /\ ParenDepthAfter(text, n - 1) = 0
        /\ QuoteOpenAfter(text, n - 1) = ""}

\* The pieces of text from position `from` on, between the positions in
\* `cuts`; an empty last piece is no piece
RECURSIVE PiecesBetween(_, _, _)
PiecesBetween(text, from, cuts) ==
    IF cuts = {}
    THEN IF from > Len(text) THEN <<>> ELSE <<SubSeq(text, from, Len(text))>>
    ELSE LET first == CHOOSE n \in cuts : \A m \in cuts : n <= m
         IN  <<SubSeq(text, from, first - 1)>>
                 \o PiecesBetween(text, first + 1, cuts \ {first})

TopLevelPieces(text) == PiecesBetween(text, 1, TopLevelCommas(text))

\* text holds a comma that stands inside parentheses or inside a string
HasInnerComma(text) ==
    \E n \in 1..Len(text) : text[n] = "," /\ n \notin TopLevelCommas(text)

IsExample1 == cssText = <<":", "i", "s", "(", ".", "a", ",", " ", ".", "b", ")", ",", " ", ".", "c">>
IsExample2 == cssText = <<"[", "v", "=", "\"", "a", ",", "b", "\"", "]">>

-----------------------------------------------------------------------------
\* C5 as claimed: for a selector that holds the scope-root placeholder
\* (":scope", also with white space after the colon) and for every root
\* selector, rewriteSelector returns the selector with every placeholder
\* replaced by the root selector character for character, and nothing else
\* changed.
C5_ScopePlaceholderVerbatim ==
    (RewriteDone /\ ~includes(cssText, <<",">>) /\ HasScopePlaceholder(cssText))
        => result = Str(VerbatimScope(trim(cssText), 0, rootSelector))

\* C6 as claimed, for the selectors without a scope-root placeholder: for a
\* selector that holds "&", rewriteSelector returns the selector with every
\* "&" replaced by the root selector, and no root selector and space in
\* front.
C6_NestingPlaceholderReplaced ==
    (RewriteDone /\ ~includes(cssText, <<",">>) /\ includes(cssText, <<"&">>)
         /\ ~HasScopePlaceholder(cssText))
        => result = Str(VerbatimAmp(trim(cssText), rootSelector))

\* C7 as claimed: each selector of the list gets exactly one rule, by
\* priority: the scope-root placeholder rule if it holds that placeholder
\* (in either way of writing it), else the "&" rule if it holds "&", else
\* the root selector, one space and the trimmed selector.
C7_OneRuleByPriority ==
    (RewriteDone /\ trim(cssText) # <<>>)
        => LET parts == splitByCommaBalanced(cssText)
           IN  result = Str(join([k \in 1..Len(parts) |->
                                     RuleByPriority(trim(parts[k]), rootSelector)],
                                 <<",", " ">>))

\* C8: splitByCommaBalanced cuts at a comma if and only if the parenthesis
\* depth is 0 and no string is open there, so ':is(.a, .b), .c' gives two
\* elements and '[v="a,b"]' one; and the rewritten list is the rewritten
\* pieces between those commas, so no root selector follows an inner comma.
C8_SplitOnlyTopLevelCommas ==
    /\ SplitDone => result = Arr(TopLevelPieces(cssText))
    /\ (SplitDone /\ IsExample1) =>
           result = Arr(<<<<":", "i", "s", "(", ".", "a", ",", " ", ".", "b", ")">>,
                          <<" ", ".", "c">>>>)
    /\ (SplitDone /\ IsExample2) => result = Arr(<<cssText>>)
    /\ (RewriteDone /\ trim(cssText) # <<>>) =>
           LET pieces == TopLevelPieces(cssText)
           IN  result = Str(join([k \in 1..Len(pieces) |->
                                     rewritePart(pieces[k], rootSelector)],
                                 <<",", " ">>))

\* A list with a comma inside parentheses and a comma at the top level was
\* split in two.
C8_Witness ==
    /\ SplitDone
    /\ IsExample1
    /\ HasInnerComma(cssText)
    /\ Cardinality(TopLevelCommas(cssText)) = 1
    /\ Len(result.val) = 2

-----------------------------------------------------------------------------
(* What the claims speak of, for a body text *)

BodyDone == pc = "done" /\ fn = "processBlock"

\* The top-level constructs of body from index cursor on: for each, the
\* index where its header starts, the index of its opening brace and the
\* index of its closing brace
RECURSIVE ConstructsFrom(_, _)
ConstructsFrom(body, cursor) ==
    LET open == indexOf(body, "{", cursor)
        close == findClosingBrace(body, open)
    IN  IF cursor >= Len(body) \/ open = -1 \/ close = -1 THEN {}
        ELSE {[start |-> cursor, open |-> open, close |-> close]}
                 \cup ConstructsFrom(body, close + 1)

Constructs(body) == ConstructsFrom(body, 0)

HeaderOf(body, c) == trim(substring(body, c.start, c.open))
InnerOf(body, c) == substring(body, c.open + 1, c.close)
BeforeOf(body, c) == substring(body, 0, c.start)
AfterOf(body, c) == substring(body, c.close + 1, Len(body))

IsAtRule(header) == header # <<>> /\ Head(header) = "@"

\* The at-rule name of header is keyframes or font-face, in any letter case
IsDefinitionHeader(header) ==
    /\ IsAtRule(header)
    /\ \E name \in {Keyframes, FontFace} :
           /\ Len(header) >= 1 + Len(name)
           /\ \A k \in 1..Len(name) : foldCase(header[1 + k]) = name[k]

IsGroupingHeader(header) == IsAtRule(header) /\ ~IsDefinitionHeader(header)

\* body, and the inner contents of the grouping at-rules in it, to any depth
RECURSIVE InnerBodies(_)
InnerBodies(body) ==
    {body} \cup UNION {InnerBodies(InnerOf(body, c)) :
                          c \in {d \in Constructs(body) :
                                    IsGroupingHeader(HeaderOf(body, d))}}

\* The block a definition at-rule is emitted as: header and inner content
\* as they stand
UnchangedBlock(body, c) ==
    HeaderOf(body, c) \o <<" ", "{">> \o InnerOf(body, c) \o <<"}", "\n">>

\* text holds a placeholder or a brace
HasPlaceholderAndBrace(text) ==
    /\ includes(text, <<"&">>)
    /\ includes(text, ColonScope)
    /\ includes(text, <<"{">>)

-----------------------------------------------------------------------------
\* C9: a definition at-rule (keyframes or font-face, in any letter case), at
\* the top level of the body or at any depth inside grouping at-rules, is
\* emitted with its header and inner content unchanged, whatever the root
\* selector and whatever the inner content holds: the transform of the body
\* it stands in is the transform of what precedes it, the unchanged block,
\* and the transform of what follows it; and the unchanged block is part of
\* the result.
C9_DefinitionUnchanged ==
    BodyDone =>
        \A body \in InnerBodies(cssText) :
            LET whole == IF body = cssText THEN result.val
                         ELSE processBlock(body, rootSelector)
            IN  \A c \in Constructs(body) :
                    IsDefinitionHeader(HeaderOf(body, c)) =>
                        /\ whole = processBlock(BeforeOf(body, c), rootSelector)
                                       \o UnchangedBlock(body, c)
                                       \o processBlock(AfterOf(body, c), rootSelector)
                        /\ includes(result.val, UnchangedBlock(body, c))

\* A font-face at-rule written in mixed case, two grouping at-rules deep,
\* whose inner content holds "&", ":scope" and braces.
C9_Witness ==
    /\ BodyDone
    /\ \E outer \in Constructs(cssText) :
           /\ IsGroupingHeader(HeaderOf(cssText, outer))
           /\ \E mid \in Constructs(InnerOf(cssText, outer)) :
                  LET body1 == InnerOf(cssText, outer)
                      body2 == InnerOf(body1, mid)
                  IN  /\ IsGroupingHeader(HeaderOf(body1, mid))
                      /\ \E c \in Constructs(body2) :
                             /\ IsDefinitionHeader(HeaderOf(body2, c))
                             /\ ~isDefinitionRuleCaseSensitive(HeaderOf(body2, c))
                             /\ HasPlaceholderAndBrace(InnerOf(body2, c))
                             /\ includes(result.val, UnchangedBlock(body2, c))

\* C10: a grouping at-rule (any at-rule that is not a definition at-rule),
\* at any depth, is emitted as its header unchanged around the transform of
\* its inner content with the same root selector; and a plain rule at any
\* depth is emitted with its selector list rewritten with that root selector
\* and its inner content as it stands, or dropped when the rewritten list is
\* empty.
C10_GroupingRecursesWithSameRoot ==
    BodyDone =>
        \A body \in InnerBodies(cssText) :
            LET whole == IF body = cssText THEN result.val
                         ELSE processBlock(body, rootSelector)
            IN  \A c \in Constructs(body) :
                    LET header == HeaderOf(body, c)
                        inner == InnerOf(body, c)
                        newSelector == rewriteSelector(header, rootSelector)
                        around(piece) ==
                            processBlock(BeforeOf(body, c), rootSelector)
                                \o piece
                                \o processBlock(AfterOf(body, c), rootSelector)
                    IN  /\ IsGroupingHeader(header) =>
                               whole = around(header \o <<" ", "{", "\n">>
                                                  \o processBlock(inner, rootSelector)
                                                  \o <<"\n", "}", "\n">>)
                        /\ ~IsAtRule(header) =>
                               whole = around(IF newSelector = <<>> THEN <<>>
                                              ELSE newSelector \o <<" ", "{">> \o inner
                                                       \o <<"}", "\n">>)

\* A grouping at-rule whose condition holds a comma and "&", inside another
\* grouping at-rule, with a plain rule in it that was rewritten.
C10_Witness ==
    /\ BodyDone
    /\ \E outer \in Constructs(cssText) :
           /\ IsGroupingHeader(HeaderOf(cssText, outer))
           /\ \E mid \in Constructs(InnerOf(cssText, outer)) :
                  LET body1 == InnerOf(cssText, outer)
                      body2 == InnerOf(body1, mid)
                  IN  /\ IsGroupingHeader(HeaderOf(body1, mid))
                      /\ includes(HeaderOf(body1, mid), <<",">>)
                      /\ includes(HeaderOf(body1, mid), <<"&">>)
                      /\ \E c \in Constructs(body2) :
                             /\ ~IsAtRule(HeaderOf(body2, c))
                             /\ rewriteSelector(HeaderOf(body2, c), rootSelector) # <<>>
                             /\ includes(result.val,
                                         HeaderOf(body1, mid) \o <<" ", "{", "\n">>
                                             \o processBlock(body2, rootSelector)
                                             \o <<"\n", "}", "\n">>)

-----------------------------------------------------------------------------
(* What the claims speak of, for a started polyfill *)

\* The sum of count[node] over the nodes of the sequence `nodes`
RECURSIVE SumOver(_, _)
SumOver(count, nodes) ==
    IF nodes = <<>> THEN 0 ELSE count[Head(nodes)] + SumOver(count, Tail(nodes))

\* The style elements and stylesheet links that are not marked as generated
\* and have been handed to processNode
SeenStyleBearing ==
    {node \in Nodes : calls[node] > 0 /\ isStyleNode(node) /\ ~hasAttribute(node)}

\* node stands in the document, at the top level or inside a container
InDocument(node) == node \in document \/ parentOf(node) \in document

-----------------------------------------------------------------------------
\* C11: over every sequence of the initial scan and of mutation
\* notifications, a node marked as generated is never fetched and never
\* passed to parseAndTransform; every other node causes at most one fetch,
\* one parseAndTransform call and one injection; and the number of
\* injections never exceeds the number of distinct style-bearing nodes, not
\* marked as generated, that were handed to processNode.
C11_NoReprocessing ==
    /\ \A node \in Nodes :
           /\ hasAttribute(node) =>
                  fetches[node] = 0 /\ transforms[node] = 0 /\ injections[node] = 0
           /\ fetches[node] <= 1
           /\ transforms[node] <= 1
           /\ injections[node] <= 1
    /\ SumOver(injections, DocumentOrder) <= Cardinality(SeenStyleBearing)
    /\ Len(generatedLinks) = SumOver(injections, DocumentOrder)

\* The notification of a generated link was handed to processNode, and the
\* link element was notified a second time while its fetch is pending.
C11_Witness ==
    /\ \E link \in GeneratedNodes : calls[link] >= 1 /\ InDocument(link)
    /\ \E node \in LinkNodes :
           /\ calls[node] >= 2
           /\ awaiting[node].fetch = 1
           /\ fetches[node] = 1

-----------------------------------------------------------------------------
\* The style elements and stylesheet links of the page whose CSS text holds
\* the scope at-rule keyword
ScopeBearing ==
    {node \in PageNodes : isStyleNode(node) /\ includesScope[PageText(node)]}

\* The text of node was passed to parseAndTransform and the result, when it
\* is a non-empty text, was injected
Handled(node) ==
    /\ transforms[node] >= 1
    /\ truthy(transformed[PageText(node)]) => injections[node] >= 1

-----------------------------------------------------------------------------
\* C13 as claimed: started without native support with an options object
\* that supplies a `watcher` function, start-up completes without error, the
\* polyfill has called that function, it has created no MutationObserver,
\* and once no notification is pending every style-bearing node the page
\* holds has been handed to processNode.
C13_WatcherOptionsStart ==
    (started # "no" /\ ~native /\ events = WatcherOptions) =>
        /\ started = "running"
        /\ "watcher" \in called
        /\ watch # "observer"
        /\ mutations = <<>> =>
               \A node \in PageNodes :
                   (isStyleNode(node) /\ InDocument(node)) => calls[node] >= 1

-----------------------------------------------------------------------------
\* part is neither empty nor white space only
NotBlank(part) == trim(part) # <<>>

\* The text a plain rule is emitted as when the empty elements of its
\* selector list are dropped: nothing when no element is left
RuleWithoutBlanks(header, inner, root) ==
    LET kept == SelectSeq(splitByCommaBalanced(header), NotBlank)
    IN  IF kept = <<>> THEN <<>>
        ELSE join(mapRewrite(kept, root), <<",", " ">>)
                 \o <<" ", "{">> \o inner \o <<"}", "\n">>

\* C14 as claimed: the elements of a plain rule's selector list that are
\* empty or white space only are dropped: the rule is emitted as the
\* rewritten non-empty elements joined by ", " around its untouched inner
\* content, and not at all when no element is left; so no emitted element is
\* the root selector and a space alone.
C14_EmptyElementsDropped ==
    BodyDone =>
        \A c \in Constructs(cssText) :
            ~IsAtRule(HeaderOf(cssText, c)) =>
                result.val = processBlock(BeforeOf(cssText, c), rootSelector)
                                 \o RuleWithoutBlanks(HeaderOf(cssText, c),
                                                      InnerOf(cssText, c), rootSelector)
                                 \o processBlock(AfterOf(cssText, c), rootSelector)

-----------------------------------------------------------------------------
\* The index just after the last construct the walk of body completes, 0
\* when it completes none
WalkEnd(body) ==
    LET closes == {c.close : c \in Constructs(body)}
    IN  IF closes = {} THEN 0 ELSE (CHOOSE n \in closes : \A m \in closes : m <= n) + 1

\* The walk of body meets an opening brace that no closing brace matches
StopsAtUnmatched(body) ==
    LET open == indexOf(body, "{", WalkEnd(body))
    IN  open # -1 /\ findClosingBrace(body, open) = -1

\* C15: processBlock on a body in which the walk meets an opening brace
\* without a matching closing brace returns a string, with no error: the
\* transform of the body cut just before the construct of that brace, so
\* every construct completed before it is in the result as it would be if
\* the body ended there.
C15_UnmatchedStopsWalk ==
    (BodyDone /\ StopsAtUnmatched(cssText)) =>
        /\ result.type = "string"
        /\ result.val = processBlock(substring(cssText, 0, WalkEnd(cssText)),
                                     rootSelector)

\* A plain rule and a grouping at-rule were completed and emitted before
\* the walk met a brace without a closing brace.
C15_Witness ==
    /\ BodyDone
    /\ StopsAtUnmatched(cssText)
    /\ \E c, d \in Constructs(cssText) :
           /\ c.close < d.start
           /\ ~IsAtRule(HeaderOf(cssText, c))
           /\ IsGroupingHeader(HeaderOf(cssText, d))
           /\ result.val = processBlock(substring(cssText, c.start, c.close + 1),
                                        rootSelector)
                               \o processBlock(substring(cssText, d.start, d.close + 1),
                                               rootSelector)
           /\ result.val # <<>>

-----------------------------------------------------------------------------
\* From position i on, with `depth` braces open before it, text never closes
\* more braces than are open and ends with none open
RECURSIVE BalancedFrom(_, _, _)
BalancedFrom(text, i, depth) ==
    IF i > Len(text) THEN depth = 0
    ELSE LET depth1 == IF text[i] = "{" THEN depth + 1
                       ELSE IF text[i] = "}" THEN depth - 1 ELSE depth
         IN  depth1 >= 0 /\ BalancedFrom(text, i + 1, depth1)

BraceBalanced(text) == BalancedFrom(text, 1, 0)

\* C16: every body parseAndTransform hands to processBlock, and every inner
\* content processBlock recurses into, is brace-balanced: no prefix closes
\* more braces than it opens and the whole closes as many as it opens; and
\* in none of them does the walk meet an opening brace without a matching
\* closing brace.
C16_BodiesAreBalanced ==
    SheetDone =>
        LET clean == Clean
        IN  \A i \in Balanced(clean) :
                \A body \in InnerBodies(BodyOf(clean, i)) :
                    BraceBalanced(body) /\ ~StopsAtUnmatched(body)

\* A text that is not brace-balanced as a whole (one scope occurrence has no
\* closing brace) with a balanced occurrence whose body holds a grouping
\* at-rule: the walk recursed into its inner content.
C16_Witness ==
    /\ SheetDone
    /\ ~BraceBalanced(Clean)
    /\ Skipped(Clean) # {}
    /\ \E i \in Balanced(Clean) :
           /\ Cardinality(InnerBodies(BodyOf(Clean, i))) >= 2
           /\ \A body \in InnerBodies(BodyOf(Clean, i)) : includes(body, <<"{">>)

-----------------------------------------------------------------------------
\* C17 as claimed: a text parseAndTransform returns holds no scope at-rule
\* head, and parseAndTransform of it returns null; also when a scope at-rule
\* stands inside the body of another.
C17_OutputHasNoScopeHead ==
    (SheetDone /\ result # Null) =>
        /\ HeadStarts(result.val) = {}
        /\ parseAndTransform(result.val) = Null

====
